---- MODULE Spec2Model ----
(***************************************************************************)
(* A model of WebCrawler/main.py: the URL filter, the URL-list             *)
(* normalisation, the fetcher with its retry loop, the page writer, the    *)
(* index writer and the loop of main().                                    *)
(*                                                                         *)
(* Text is a sequence of one-character strings, so that lower(), strip(),  *)
(* split(), endswith(), "in" and join() are computed as Python computes    *)
(* them.  Durations are in milliseconds.                                   *)
(***************************************************************************)
EXTENDS Integers, Sequences, FiniteSets, TLC

VARIABLES
    pc,           \* where the process is
    doc,          \* the urls.json that made load_urls raise, if it did
    urls,         \* main: urls, the list load_urls returned
    pos,          \* main: 1-based position of the for loop in urls
    saved,        \* main: saved
    index_lines,  \* main: index_lines
    files,        \* crawled_pages: number |-> text of <number>.txt
    writes,       \* number |-> how many times save_page wrote <number>.txt
    index_file,   \* index.txt: Absent, or the text write_index wrote
    flushes,      \* how many times write_index ran
    attempt,      \* fetch_html: attempt
    html,         \* main: html, the value fetch_html returned
    outcomes,     \* fetch_html: what each GET of the current call did
    resp,         \* fetch_html: resp, the response of the last GET
    slept,        \* the sleeps taken since the current fetch_html call began
    fetched,      \* the URLs passed to fetch_html so far, in call order
    served,       \* url |-> the text of the accepted response for it
    exit_status,  \* process exit status, Running until the process ends
    arg,          \* argument of a function applied on its own
    ret           \* its return value

vars == << pc, doc, urls, pos, saved, index_lines, files, writes, index_file,
           flushes, attempt, html, outcomes, resp, slept, fetched,
           served, exit_status, arg, ret >>

(***************************************************************************)
(* Configuration (main.py, lines 14-28)                                    *)
(***************************************************************************)

\* main.py sets MAX_PAGES = 100.  The model scales the target down so that
\* both ways out of the loop (target reached, list exhausted) are reachable.
MAX_PAGES == 2

RETRIES == 3

\* REQUEST_DELAY_SEC = 0.2
REQUEST_DELAY_MS == 200

\* time.sleep(0.5 * attempt)
BACKOFF_STEP_MS == 500

DISALLOWED_EXTENSIONS ==
    { <<".", "j", "s">>,
      <<".", "c", "s", "s">>,
      <<".", "p", "n", "g">>,
      <<".", "j", "p", "g">>,
      <<".", "j", "p", "e", "g">>,
      <<".", "g", "i", "f">>,
      <<".", "s", "v", "g">>,
      <<".", "w", "e", "b", "p">>,
      <<".", "i", "c", "o">>,
      <<".", "p", "d", "f">>,
      <<".", "z", "i", "p">>,
      <<".", "r", "a", "r">>,
      <<".", "7", "z">>,
      <<".", "m", "p", "3">>,
      <<".", "m", "p", "4">>,
      <<".", "a", "v", "i">>,
      <<".", "m", "o", "v">>,
      <<".", "w", "o", "f", "f">>,
      <<".", "w", "o", "f", "f", "2">>,
      <<".", "t", "t", "f">>,
      <<".", "e", "o", "t">> }

(***************************************************************************)
(* Bounds of the model                                                     *)
(***************************************************************************)

\* longest "urls" array of urls.json that a run of main() is given
MaxUrls == 4

\* longest list normalize_urls is applied to on its own
MaxRawLen == 4

(***************************************************************************)
(* Python str operations                                                   *)
(***************************************************************************)

UpperLetters ==
    <<"A", "B", "C", "D", "E", "F", "G", "H", "I", "J", "K", "L", "M",
      "N", "O", "P", "Q", "R", "S", "T", "U", "V", "W", "X", "Y", "Z">>

LowerLetters ==
    <<"a", "b", "c", "d", "e", "f", "g", "h", "i", "j", "k", "l", "m",
      "n", "o", "p", "q", "r", "s", "t", "u", "v", "w", "x", "y", "z">>

Whitespace == {" ", "\t", "\n", "\r"}

LowerChar(c) ==
    IF \E k \in 1..Len(UpperLetters) : UpperLetters[k] = c
    THEN LowerLetters[CHOOSE k \in 1..Len(UpperLetters) : UpperLetters[k] = c]
    ELSE c

\* s.lower()
Lower(s) == [k \in 1..Len(s) |-> LowerChar(s[k])]

\* s.split(sep)[0] for a one-character sep: the text before the first sep
SplitFirst(s, sep) ==
    IF \E k \in 1..Len(s) : s[k] = sep
    THEN SubSeq(s, 1, (CHOOSE k \in 1..Len(s) :
                          /\ s[k] = sep
                          /\ \A j \in 1..(k - 1) : s[j] # sep) - 1)
    ELSE s

\* s.endswith(suffix)
EndsWith(s, suffix) ==
    /\ Len(suffix) <= Len(s)
    /\ SubSeq(s, Len(s) - Len(suffix) + 1, Len(s)) = suffix

\* sub in s
Contains(s, sub) ==
    \E k \in 0..(Len(s) - Len(sub)) : SubSeq(s, k + 1, k + Len(sub)) = sub

\* s.strip()
Strip(s) ==
    IF \A k \in 1..Len(s) : s[k] \in Whitespace
    THEN << >>
    ELSE LET first == CHOOSE k \in 1..Len(s) :
                          /\ s[k] \notin Whitespace
                          /\ \A j \in 1..(k - 1) : s[j] \in Whitespace
             last  == CHOOSE k \in 1..Len(s) :
                          /\ s[k] \notin Whitespace
                          /\ \A j \in (k + 1)..Len(s) : s[j] \in Whitespace
         IN  SubSeq(s, first, last)

(***************************************************************************)
(* is_bad_resource_url and normalize_urls                                  *)
(***************************************************************************)

is_bad_resource_url(url) ==
    LET u == SplitFirst(SplitFirst(Lower(url), "?"), "#")
    IN  \E ext \in DISALLOWED_EXTENSIONS : EndsWith(u, ext)

\* An entry of the "urls" array: a JSON string (kind "str", s its text) or
\* another JSON value (kind "other", s its JSON text).
IsStr(e) == e.kind = "str"

\* A mutant of NormalizeStep: the test "u not in seen" is lost.
NormalizeStep_no_seen_test(acc, e) ==
    IF ~IsStr(e) THEN acc
    ELSE LET u == Strip(e.s)
         IN  IF u = << >> THEN acc
             ELSE IF is_bad_resource_url(u) THEN acc
             ELSE [seen |-> acc.seen \cup {u}, out |-> Append(acc.out, u)]

\* One pass of the loop of normalize_urls over entry e, with the loop's
\* (seen, out) in acc.
NormalizeStep(acc, e) ==
    IF ~IsStr(e) THEN acc
    ELSE LET u == Strip(e.s)
         IN  IF u = << >> THEN acc
             ELSE IF is_bad_resource_url(u) THEN acc
             ELSE IF u \notin acc.seen
                  THEN [seen |-> acc.seen \cup {u}, out |-> Append(acc.out, u)]
                  ELSE acc

RECURSIVE NormalizeLoop(_, _, _)
NormalizeLoop(raw, k, acc) ==
    IF k > Len(raw) THEN acc
    ELSE NormalizeLoop(raw, k + 1, NormalizeStep(acc, raw[k]))

normalize_urls(raw) ==
    NormalizeLoop(raw, 1, [seen |-> {}, out |-> << >>]).out

(***************************************************************************)
(* Values the variables of main() hold while a function is applied on its  *)
(* own                                                                     *)
(***************************************************************************)

\* the process: still running, or ended with an exit status
Running == [ended |-> FALSE, code |-> 0]
Exited(code) == [ended |-> TRUE, code |-> code]

\* Optional[str]: None, or a text
NoText == [ok |-> FALSE, text |-> << >>]
Text(t) == [ok |-> TRUE, text |-> t]

\* no urls.json on record (doc records the file that made load_urls raise)
NoDoc == [kind |-> "loaded", urls |-> << >>]

\* no response object
NoResp == [status |-> 0, ctype |-> NoText, body |-> << >>]

MainIdle ==
    /\ doc = NoDoc
    /\ urls = << >>
    /\ pos = 0
    /\ saved = 0
    /\ index_lines = << >>
    /\ files = << >>
    /\ writes = << >>
    /\ index_file = NoText
    /\ flushes = 0
    /\ attempt = 0
    /\ html = NoText
    /\ outcomes = << >>
    /\ resp = NoResp
    /\ slept = << >>
    /\ fetched = << >>
    /\ served = << >>
    /\ exit_status = Running

mainVars == << doc, urls, pos, saved, index_lines, files, writes, index_file,
               flushes, attempt, html, outcomes, resp, slept, fetched,
               served, exit_status >>

(***************************************************************************)
(* is_bad_resource_url applied to one URL                                  *)
(***************************************************************************)

Scheme == <<"h", "t", "t", "p", ":", "/", "/">>

FilterHosts ==
    { <<"a", ".", "i", "o">>,
      <<"b", ".", "z", "i", "p">>,
      <<"B", ".", "M", "O", "V">> }

FilterPaths ==
    { << >>,
      <<"/">>,
      <<"/", "p">>,
      <<"/", "p", ".", "j", "s">>,
      <<"/", "P", ".", "J", "S">>,
      <<"/", "p", ".", "j", "s", "/">>,
      <<"/", "p", ".", "j", "s", "x">>,
      <<"/", "j", "s">>,
      <<"/", "f", ".", "w", "o", "f", "f", "2">>,
      <<"/", "f", ".", "p", "n", "g", ".", "h", "t", "m", "l">>,
      <<"/", "v", "1", ".", "7", "z">> }

FilterQueries ==
    { << >>,
      <<"?", "q", "=", "1">>,
      <<"?", "f", "=", "a", ".", "c", "s", "s">> }

FilterFragments ==
    { << >>,
      <<"#", "s">>,
      <<"#", "a", ".", "p", "d", "f">>,
      <<"#", "a", "?", "b", ".", "g", "i", "f">> }

\* The URLs the filter is applied to, each kept with its parts.
FilterUrls ==
    [host : FilterHosts, path : FilterPaths,
     query : FilterQueries, fragment : FilterFragments]

UrlText(u) == Scheme \o u.host \o u.path \o u.query \o u.fragment

InitFilter ==
    /\ pc = "filter_call"
    /\ arg \in FilterUrls
    /\ ret = NoText
    /\ MainIdle

ApplyFilter ==
    /\ pc = "filter_call"
    /\ pc' = "filter_ret"
    /\ ret' = is_bad_resource_url(UrlText(arg))
    /\ UNCHANGED << arg, mainVars >>

NextFilter == ApplyFilter

SpecFilter == InitFilter /\ [][NextFilter]_vars

(***************************************************************************)
(* normalize_urls applied to one list                                      *)
(***************************************************************************)

NormEntries ==
    { [kind |-> "other", s |-> <<"7">>],
      [kind |-> "str", s |-> << >>],
      [kind |-> "str", s |-> <<" ", "\t">>],
      [kind |-> "str", s |-> <<"a">>],
      [kind |-> "str", s |-> <<" ", "a", " ">>],
      [kind |-> "str", s |-> <<"b">>],
      [kind |-> "str", s |-> <<"\t", "b">>],
      [kind |-> "str", s |-> <<"b", ".", "J", "S">>] }

ListsOver(S, n) == UNION { [1..m -> S] : m \in 0..n }

InitNormalize ==
    /\ pc = "normalize_call"
    /\ arg \in ListsOver(NormEntries, MaxRawLen)
    /\ ret = NoText
    /\ MainIdle

ApplyNormalize ==
    /\ pc = "normalize_call"
    /\ pc' = "normalize_ret"
    /\ ret' = normalize_urls(arg)
    /\ UNCHANGED << arg, mainVars >>

NextNormalize == ApplyNormalize

SpecNormalize == InitNormalize /\ [][NextNormalize]_vars

(***************************************************************************)
(* load_urls                                                               *)
(***************************************************************************)

\* The URL entries of the urls.json a run is given.
MainEntries ==
    { [kind |-> "other", s |-> <<"7">>],
      [kind |-> "str", s |-> <<" ">>],
      [kind |-> "str", s |-> <<"a", "/", "1">>],
      [kind |-> "str", s |-> <<" ", "a", "/", "1">>],
      [kind |-> "str", s |-> <<"a", "/", "2">>],
      [kind |-> "str", s |-> <<"a", "/", "3">>],
      [kind |-> "str", s |-> <<"a", "/", "4">>],
      [kind |-> "str", s |-> <<"a", "/", "x", ".", "j", "s">>] }

\* urls.json: not parseable as a JSON object ("malformed"), an object
\* without the field "urls" ("no_field"), with a field "urls" that is not
\* an array ("not_list"), or with an array ("list").
Docs ==
    { [kind |-> k, urls |-> << >>] : k \in {"malformed", "no_field", "not_list"} }
    \cup { [kind |-> "list", urls |-> l] : l \in ListsOver(MainEntries, MaxUrls) }

\* load_urls raises: json.loads fails, or "urls" is not a list
LoadRaises(d) == d.kind \in {"malformed", "not_list"}

\* what load_urls returns when it does not raise
load_urls(d) ==
    LET raw_urls == IF d.kind = "no_field" THEN << >> ELSE d.urls
    IN  normalize_urls(raw_urls)

\* the lists load_urls returns, over every urls.json it does not raise on
LoadedLists == { load_urls(d) : d \in { x \in Docs : ~LoadRaises(x) } }

(***************************************************************************)
(* The HTTP responses a GET may bring                                      *)
(***************************************************************************)

Statuses == {200, 404}

\* the Content-Type header: missing, or its value
ContentTypes ==
    { NoText,
      Text(<<"T", "e", "x", "t", "/", "H", "T", "M", "L", ";", " ",
             "c", "h", "a", "r", "s", "e", "t", "=", "u", "t", "f", "-", "8">>),
      Text(<<"a", "p", "p", "l", "i", "c", "a", "t", "i", "o", "n", "/",
             "x", "h", "t", "m", "l", "+", "x", "m", "l">>),
      Text(<<"a", "p", "p", "l", "i", "c", "a", "t", "i", "o", "n", "/",
             "j", "s", "o", "n">>),
      Text(<<"m", "u", "l", "t", "i", "p", "a", "r", "t", "/",
             "r", "e", "l", "a", "t", "e", "d", ";", " ",
             "t", "y", "p", "e", "=", "\"", "t", "e", "x", "t", "/",
             "h", "t", "m", "l", "\"">>) }

\* resp.text
Bodies == { << >>, <<"<", "p", ">", "\n">> }

Responses == [status : Statuses, ctype : ContentTypes, body : Bodies]

TEXT_HTML == <<"t", "e", "x", "t", "/", "h", "t", "m", "l">>

APPLICATION_XHTML ==
    <<"a", "p", "p", "l", "i", "c", "a", "t", "i", "o", "n", "/",
      "x", "h", "t", "m", "l", "+", "x", "m", "l">>

is_html_response(r) ==
    LET ctype == Lower(IF r.ctype.ok THEN r.ctype.text ELSE << >>)
    IN  Contains(ctype, TEXT_HTML) \/ Contains(ctype, APPLICATION_XHTML)

\* what fetch_html returns for a response that arrived (lines 129-138)
AcceptResponse(r) ==
    IF r.status # 200 THEN NoText
    ELSE IF ~is_html_response(r) THEN NoText
    ELSE Text(r.body)

(***************************************************************************)
(* save_page and write_index                                               *)
(***************************************************************************)

\* A mutant of save_page: the file is named by the number before it.
save_page_off_by_one(dir, number, text) ==
    ((number - 1) :> text) @@ dir

\* crawled_pages after save_page(out_dir, number, html)
save_page(dir, number, text) ==
    (number :> text) @@ dir

\* the write counts after one more write of <number>.txt
CountWrite(w, number) ==
    (number :> (IF number \in DOMAIN w THEN w[number] + 1 ELSE 1)) @@ w

DecimalDigits == <<"0", "1", "2", "3", "4", "5", "6", "7", "8", "9">>

\* f"{n}" for n >= 0
RECURSIVE IntToStr(_)
IntToStr(n) ==
    IF n < 10 THEN << DecimalDigits[n + 1] >>
    ELSE Append(IntToStr(n \div 10), DecimalDigits[(n % 10) + 1])

\* f"{n}\t{url}"
IndexLine(rec) == IntToStr(rec[1]) \o <<"\t">> \o rec[2]

\* "\n".join(parts)
RECURSIVE Join(_)
Join(parts) ==
    IF parts = << >> THEN << >>
    ELSE IF Len(parts) = 1 THEN parts[1]
    ELSE parts[1] \o <<"\n">> \o Join(Tail(parts))

\* the text write_index writes to index.txt
write_index(lines) ==
    Join([k \in 1..Len(lines) |-> IndexLine(lines[k])]) \o <<"\n">>

(***************************************************************************)
(* main()                                                                  *)
(***************************************************************************)

Init ==
    /\ pc = "start"
    /\ doc = NoDoc
    /\ urls = << >>
    /\ pos = 0
    /\ saved = 0
    /\ index_lines = << >>
    /\ files = << >>
    /\ writes = << >>
    /\ index_file = NoText
    /\ flushes = 0
    /\ attempt = 0
    /\ html = NoText
    /\ outcomes = << >>
    /\ resp = NoResp
    /\ slept = << >>
    /\ fetched = << >>
    /\ served = << >>
    /\ exit_status = Running
    /\ arg = NoText
    /\ ret = NoText

\* lines 174, 70-84: load_urls raises (json.loads fails, or "urls" is not a
\* list); the process ends with a traceback.
LoadUrlsRaises ==
    /\ pc = "start"
    /\ \E d \in Docs :
          /\ LoadRaises(d)
          /\ doc' = d
    /\ pc' = "exited"
    /\ exit_status' = Exited(1)
    /\ UNCHANGED << urls, pos, saved, index_lines, files, writes, index_file,
                    flushes, attempt, html, outcomes, resp, slept, fetched,
                    served, arg, ret >>

\* lines 174, 70-85: load_urls reads urls.json and returns the normalised list.
LoadUrls ==
    /\ pc = "start"
    /\ urls' \in LoadedLists
    /\ pc' = "loaded"
    /\ UNCHANGED << doc, pos, saved, index_lines, files, writes, index_file,
                    flushes, attempt, html, outcomes, resp, slept, fetched,
                    served, exit_status, arg, ret >>

\* lines 175-176: the list is empty, SystemExit with a message.
StartEmptyList ==
    /\ pc = "loaded"
    /\ urls = << >>
    /\ pc' = "exited"
    /\ exit_status' = Exited(1)
    /\ UNCHANGED << doc, urls, pos, saved, index_lines, files, writes,
                    index_file, flushes, attempt, html, outcomes, resp,
                    slept, fetched, served, arg, ret >>

\* lines 175-186: the list is not empty and the for loop starts.
StartLoop ==
    /\ pc = "loaded"
    /\ urls # << >>
    /\ pos' = 1
    /\ pc' = "loop"
    /\ UNCHANGED << doc, urls, saved, index_lines, files, writes, index_file,
                    flushes, attempt, html, outcomes, resp, slept, fetched,
                    served, exit_status, arg, ret >>

\* line 186: the for loop has no URL left.
LoopExhausted ==
    /\ pc = "loop"
    /\ pos > Len(urls)
    /\ pc' = "flush"
    /\ UNCHANGED << doc, urls, pos, saved, index_lines, files, writes,
                    index_file, flushes, attempt, html, outcomes, resp,
                    slept, fetched, served, exit_status, arg, ret >>

\* lines 187-188: break
LoopBreak ==
    /\ pc = "loop"
    /\ pos <= Len(urls)
    /\ saved >= MAX_PAGES
    /\ pc' = "flush"
    /\ UNCHANGED << doc, urls, pos, saved, index_lines, files, writes,
                    index_file, flushes, attempt, html, outcomes, resp,
                    slept, fetched, served, exit_status, arg, ret >>

\* A mutant of FetchBegin: the test of line 187 is lost.
FetchBegin_no_target_test ==
    /\ pc = "loop"
    /\ pos <= Len(urls)
    /\ pc' = "get"
    /\ attempt' = 1
    /\ outcomes' = << >>
    /\ resp' = NoResp
    /\ slept' = << >>
    /\ fetched' = Append(fetched, urls[pos])
    /\ UNCHANGED << doc, urls, pos, saved, index_lines, files, writes,
                    index_file, flushes, html, served, exit_status, arg, ret >>

\* lines 190, 124-126: fetch_html(session, url) is called.
FetchBegin ==
    /\ pc = "loop"
    /\ pos <= Len(urls)
    /\ saved < MAX_PAGES
    /\ pc' = "get"
    /\ attempt' = 1
    /\ outcomes' = << >>
    /\ resp' = NoResp
    /\ slept' = << >>
    /\ fetched' = Append(fetched, urls[pos])
    /\ UNCHANGED << doc, urls, pos, saved, index_lines, files, writes,
                    index_file, flushes, html, served, exit_status, arg, ret >>

\* A mutant of GetRaises: after the last attempt the loop starts over
\* instead of ending.
GetRaises_retries_forever ==
    /\ pc = "get"
    /\ outcomes' = IF Len(outcomes) < RETRIES
                   THEN Append(outcomes, "raised") ELSE outcomes
    /\ slept' = IF Len(slept) < RETRIES
                THEN Append(slept, BACKOFF_STEP_MS * attempt) ELSE slept
    /\ attempt' = IF attempt < RETRIES THEN attempt + 1 ELSE 1
    /\ pc' = "get"
    /\ UNCHANGED << doc, urls, pos, saved, index_lines, files, writes,
                    index_file, flushes, html, resp, fetched, served,
                    exit_status, arg, ret >>

\* A mutant of GetRaises: range(1, RETRIES) instead of range(1, RETRIES + 1).
GetRaises_one_attempt_short ==
    /\ pc = "get"
    /\ outcomes' = Append(outcomes, "raised")
    /\ slept' = Append(slept, BACKOFF_STEP_MS * attempt)
    /\ IF attempt < RETRIES - 1
       THEN /\ attempt' = attempt + 1
            /\ pc' = "get"
            /\ html' = html
       ELSE /\ attempt' = attempt
            /\ pc' = "fetched"
            /\ html' = NoText
    /\ UNCHANGED << doc, urls, pos, saved, index_lines, files, writes,
                    index_file, flushes, resp, fetched, served, exit_status,
                    arg, ret >>

\* lines 127-128, 140-145: session.get raises; the handler sleeps
\* 0.5 * attempt seconds, and the loop goes on to the next attempt or,
\* after the last one, fetch_html returns None.
GetRaises ==
    /\ pc = "get"
    /\ outcomes' = Append(outcomes, "raised")
    /\ slept' = Append(slept, BACKOFF_STEP_MS * attempt)
    /\ IF attempt < RETRIES
       THEN /\ attempt' = attempt + 1
            /\ pc' = "get"
            /\ html' = html
       ELSE /\ attempt' = attempt
            /\ pc' = "fetched"
            /\ html' = NoText
    /\ UNCHANGED << doc, urls, pos, saved, index_lines, files, writes,
                    index_file, flushes, resp, fetched, served, exit_status,
                    arg, ret >>

\* lines 128-138: session.get returns a response; fetch_html returns.
GetResponds ==
    /\ pc = "get"
    /\ \E r \in Responses :
          /\ resp' = r
          /\ html' = AcceptResponse(r)
          /\ served' = IF AcceptResponse(r).ok
                       THEN (urls[pos] :> r.body) @@ served
                       ELSE served
    /\ outcomes' = Append(outcomes, "response")
    /\ pc' = "fetched"
    /\ UNCHANGED << doc, urls, pos, saved, index_lines, files, writes,
                    index_file, flushes, attempt, slept, fetched,
                    exit_status, arg, ret >>

\* lines 191-194: html is None
Skip ==
    /\ pc = "fetched"
    /\ ~html.ok
    /\ slept' = Append(slept, REQUEST_DELAY_MS)
    /\ pos' = pos + 1
    /\ resp' = NoResp
    /\ pc' = "loop"
    /\ UNCHANGED << doc, urls, saved, index_lines, files, writes, index_file,
                    flushes, attempt, html, outcomes, fetched, served,
                    exit_status, arg, ret >>

\* lines 196-201: the page is counted, written and indexed
Save ==
    /\ pc = "fetched"
    /\ html.ok
    /\ saved' = saved + 1
    /\ files' = save_page(files, saved', html.text)
    /\ writes' = CountWrite(writes, saved')
    /\ index_lines' = Append(index_lines, << saved', urls[pos] >>)
    /\ slept' = Append(slept, REQUEST_DELAY_MS)
    /\ pos' = pos + 1
    /\ resp' = NoResp
    /\ pc' = "loop"
    /\ UNCHANGED << doc, urls, index_file, flushes, attempt, html, outcomes,
                    fetched, served, exit_status, arg, ret >>

\* A mutant of Flush: an empty index is not written.
Flush_skips_empty_index ==
    /\ pc = "flush"
    /\ index_file' = IF index_lines = << >> THEN index_file
                     ELSE Text(write_index(index_lines))
    /\ flushes' = IF index_lines = << >> THEN flushes ELSE flushes + 1
    /\ pc' = "check"
    /\ UNCHANGED << doc, urls, pos, saved, index_lines, files, writes,
                    attempt, html, outcomes, resp, slept, fetched, served,
                    exit_status, arg, ret >>

\* line 203: write_index(index_path, index_lines)
Flush ==
    /\ pc = "flush"
    /\ index_file' = Text(write_index(index_lines))
    /\ flushes' = flushes + 1
    /\ pc' = "check"
    /\ UNCHANGED << doc, urls, pos, saved, index_lines, files, writes,
                    attempt, html, outcomes, resp, slept, fetched, served,
                    exit_status, arg, ret >>

\* A mutant of ExitInsufficient: the test is saved <= MAX_PAGES.
ExitInsufficient_at_target_too ==
    /\ pc = "check"
    /\ saved <= MAX_PAGES
    /\ pc' = "exited"
    /\ exit_status' = Exited(1)
    /\ UNCHANGED << doc, urls, pos, saved, index_lines, files, writes,
                    index_file, flushes, attempt, html, outcomes, resp,
                    slept, fetched, served, arg, ret >>

\* lines 206-210: SystemExit with a message
ExitInsufficient ==
    /\ pc = "check"
    /\ saved < MAX_PAGES
    /\ pc' = "exited"
    /\ exit_status' = Exited(1)
    /\ UNCHANGED << doc, urls, pos, saved, index_lines, files, writes,
                    index_file, flushes, attempt, html, outcomes, resp,
                    slept, fetched, served, arg, ret >>

\* lines 206, 212: main returns
ExitOk ==
    /\ pc = "check"
    /\ saved >= MAX_PAGES
    /\ pc' = "exited"
    /\ exit_status' = Exited(0)
    /\ UNCHANGED << doc, urls, pos, saved, index_lines, files, writes,
                    index_file, flushes, attempt, html, outcomes, resp,
                    slept, fetched, served, arg, ret >>

Next ==
    \/ LoadUrlsRaises
    \/ LoadUrls
    \/ StartEmptyList
    \/ StartLoop
    \/ LoopExhausted
    \/ LoopBreak
    \/ FetchBegin
    \/ GetRaises
    \/ GetResponds
    \/ Skip
    \/ Save
    \/ Flush
    \/ ExitInsufficient
    \/ ExitOk

Spec == Init /\ [][Next]_vars

\* The process is sequential and runs its next statement; every GET returns
\* a response or raises (the request has a timeout).
FairSpec == Spec /\ WF_vars(Next)

(***************************************************************************)
(* Reading index.txt back                                                  *)
(***************************************************************************)

\* the lines of a text, as str.splitlines() cuts it at "\n"
RECURSIVE SplitLines(_)
SplitLines(t) ==
    IF t = << >> THEN << >>
    ELSE LET first == SplitFirst(t, "\n")
         IN  IF Len(first) = Len(t) THEN << t >>
             ELSE << first >> \o SplitLines(SubSeq(t, Len(first) + 2, Len(t)))

DigitValue(c) == (CHOOSE k \in 1..Len(DecimalDigits) : DecimalDigits[k] = c) - 1

\* int(s) for a non-empty text of decimal digits
RECURSIVE StrToInt(_)
StrToInt(s) ==
    IF Len(s) = 1 THEN DigitValue(s[1])
    ELSE 10 * StrToInt(SubSeq(s, 1, Len(s) - 1)) + DigitValue(s[Len(s)])

HasTab(line) == \E k \in 1..Len(line) : line[k] = "\t"

\* the (number, URL) pair of a line "number<TAB>url"
RecordOfLine(line) ==
    LET n == SplitFirst(line, "\t")
    IN  << StrToInt(n), SubSeq(line, Len(n) + 2, Len(line)) >>

\* the records of an index text: one for each line that holds a TAB
RecordsOf(t) ==
    LET recs == SelectSeq(SplitLines(t), HasTab)
    IN  [k \in 1..Len(recs) |-> RecordOfLine(recs[k])]

NoRepeats(q) == \A a, b \in 1..Len(q) : a # b => q[a] # q[b]

(***************************************************************************)
(* C1                                                                      *)
(***************************************************************************)

\* C1: in every state of a run, the index holds the numbers 1..saved in
\* order, without gap or repeat; each of these numbers named exactly one
\* page file written, and no other file was written; the text of N.txt is
\* the text fetched from the URL the index records against N; and the
\* flushed index.txt holds the same records.
C1_IndexNumbersMatchFiles ==
    /\ Len(index_lines) = saved
    /\ \A k \in 1..Len(index_lines) : index_lines[k][1] = k
    /\ DOMAIN files = 1..saved
    /\ DOMAIN writes = 1..saved
    /\ \A n \in DOMAIN writes : writes[n] = 1
    /\ \A n \in (1..saved) \cap DOMAIN files \cap (1..Len(index_lines)) :
          /\ index_lines[n][2] \in DOMAIN served
          /\ files[n] = served[index_lines[n][2]]
    /\ index_file.ok => RecordsOf(index_file.text) = index_lines

\* Two pages with different texts saved, a URL skipped, the index flushed.
C1_Witness ==
    /\ index_file.ok
    /\ saved = 2
    /\ Len(fetched) > saved
    /\ files[1] # files[2]

(***************************************************************************)
(* C2                                                                      *)
(***************************************************************************)

\* C2: once the index is flushed, saved equals the number of lines of the
\* text write_index wrote and the number of page files save_page wrote, and
\* the index holds a record for each saved page and for no skipped URL.
C2_SavedEqualsLinesEqualsFiles ==
    index_file.ok =>
        /\ saved = Len(SplitLines(index_file.text))
        /\ saved = Cardinality(DOMAIN writes)
        /\ { RecordsOf(index_file.text)[k][2] :
               k \in 1..Len(RecordsOf(index_file.text)) } = DOMAIN served

(***************************************************************************)
(* C3                                                                      *)
(***************************************************************************)

\* C3: a run that enters the fetch loop leaves it, and every run ends; when
\* the loop is left, saved has reached MAX_PAGES or every URL of the list
\* has been passed to fetch_html.
C3_LoopEndsAndRunTerminates ==
    /\ (pc = "loop") ~> (pc = "flush")
    /\ <>(pc = "exited")
    /\ [](pc = "flush" => (saved >= MAX_PAGES \/ fetched = urls))

\* The loop left by exhaustion of a list of three or more URLs, below target.
C3_Witness ==
    /\ pc = "flush"
    /\ saved < MAX_PAGES
    /\ fetched = urls
    /\ Len(urls) >= 3

(***************************************************************************)
(* C4                                                                      *)
(***************************************************************************)

\* C4: the process ends with status 1 if load_urls raises, if the filtered
\* list is empty, or if saved is below MAX_PAGES when the loop has ended;
\* it ends with status 0 exactly when saved has reached MAX_PAGES.
C4_ExitStatus ==
    /\ (pc = "exited") <=> exit_status.ended
    /\ pc = "exited" =>
          /\ exit_status.code \in {0, 1}
          /\ (LoadRaises(doc) \/ urls = << >> \/ saved < MAX_PAGES)
                => exit_status.code = 1
          /\ (exit_status.code = 0) <=> (saved >= MAX_PAGES)

\* A run that ended with status 0 after skipping a URL.
C4_Witness ==
    /\ pc = "exited"
    /\ exit_status = Exited(0)
    /\ Len(fetched) > saved

(***************************************************************************)
(* C5                                                                      *)
(***************************************************************************)

\* C5: index.txt is not written before the loop has ended; when the loop
\* has ended it is written exactly once, with all the pairs accumulated,
\* and this is done before the process ends with the insufficient-yield
\* failure; a run whose list is empty ends before any fetch and before any
\* page file or index file is written.
C5_FlushOnceAfterLoop ==
    /\ pc \in {"start", "loaded", "loop", "get", "fetched", "flush"} =>
          flushes = 0 /\ ~index_file.ok
    /\ (pc = "check" \/ (pc = "exited" /\ urls # << >>)) =>
          /\ flushes = 1
          /\ index_file.ok
          /\ Len(RecordsOf(index_file.text)) = Len(index_lines)
          /\ \A k \in 1..Len(index_lines) :
                RecordsOf(index_file.text)[k] = index_lines[k]
    /\ (pc = "exited" /\ urls = << >>) =>
          /\ exit_status = Exited(1)
          /\ flushes = 0
          /\ ~index_file.ok
          /\ fetched = << >>
          /\ DOMAIN writes = {}

\* The insufficient-yield failure after a flush of a non-empty index.
C5_Witness ==
    /\ pc = "exited"
    /\ exit_status = Exited(1)
    /\ flushes = 1
    /\ saved >= 1

(***************************************************************************)
(* C6                                                                      *)
(***************************************************************************)

\* the media type a Content-Type header declares: the text before the first
\* ";", trimmed and lower-cased ("" when the header is missing)
DeclaredType(r) ==
    Strip(SplitFirst(Lower(IF r.ctype.ok THEN r.ctype.text ELSE << >>), ";"))

DeclaresHtml(r) == DeclaredType(r) \in {TEXT_HTML, APPLICATION_XHTML}

\* C6: when a GET brings a response whose status is not 200, or a 200
\* response whose declared content type is neither HTML nor XHTML,
\* fetch_html returns None at once: that GET is the last one for the URL
\* and no backoff sleep follows it, whatever the attempt number.
C6_BadResponseYieldsNothingAtOnce ==
    ( /\ pc = "fetched"
      /\ outcomes # << >>
      /\ outcomes[Len(outcomes)] = "response"
      /\ (resp.status # 200 \/ ~DeclaresHtml(resp)) ) =>
        /\ ~html.ok
        /\ Len(outcomes) = attempt
        /\ Len(slept) = attempt - 1

(***************************************************************************)
(* C7                                                                      *)
(***************************************************************************)

AllRaised == \A k \in 1..Len(outcomes) : outcomes[k] = "raised"

RECURSIVE SumSeq(_)
SumSeq(q) == IF q = << >> THEN 0 ELSE q[1] + SumSeq(Tail(q))

\* C7: fetch_html never makes more than RETRIES GETs for a URL; while every
\* GET so far has raised, the k-th failure was followed by a sleep of
\* BACKOFF_STEP_MS * k and then by attempt k + 1; when all RETRIES GETs have
\* raised, fetch_html returns None, the sleeps taken grow strictly from
\* attempt to attempt, and their sum is at least the sum of the backoffs.
C7_TransportFailuresRetryThenGiveUp ==
    /\ pc \in {"get", "fetched"} => Len(outcomes) <= RETRIES
    /\ (pc = "get" /\ AllRaised) =>
          /\ attempt = Len(outcomes) + 1
          /\ attempt <= RETRIES
          /\ slept = [k \in 1..Len(outcomes) |-> BACKOFF_STEP_MS * k]
    /\ (pc = "fetched" /\ AllRaised) =>
          /\ Len(outcomes) = RETRIES
          /\ ~html.ok
          /\ slept = [k \in 1..RETRIES |-> BACKOFF_STEP_MS * k]
          /\ \A k \in 1..(Len(slept) - 1) : slept[k] < slept[k + 1]
          /\ 2 * SumSeq(slept) >= BACKOFF_STEP_MS * RETRIES * (RETRIES + 1)

\* fetch_html has returned after RETRIES GETs that all raised.
C7_Witness ==
    /\ pc = "fetched"
    /\ AllRaised
    /\ Len(outcomes) = RETRIES

(***************************************************************************)
(* C10                                                                     *)
(***************************************************************************)

\* C10: saved never exceeds MAX_PAGES; the URLs passed to fetch_html are the
\* first URLs of the list, in list order, each passed once; and once saved
\* has reached MAX_PAGES no further URL is passed to fetch_html.
C10_TargetNeverExceededEachUrlOnce ==
    /\ [](/\ saved <= MAX_PAGES
          /\ Len(fetched) <= Len(urls)
          /\ fetched = SubSeq(urls, 1, Len(fetched))
          /\ NoRepeats(fetched))
    /\ [][saved >= MAX_PAGES => fetched' = fetched]_vars

\* The loop left at the target, after a skip, with a URL never fetched.
C10_Witness ==
    /\ pc = "flush"
    /\ saved = MAX_PAGES
    /\ Len(fetched) > saved
    /\ Len(fetched) < Len(urls)

(***************************************************************************)
(* C9                                                                      *)
(***************************************************************************)

PathHasRejectedExtension(u) ==
    \E ext \in DISALLOWED_EXTENSIONS : EndsWith(Lower(u.path), ext)

\* C9: is_bad_resource_url rejects a URL exactly when its path, lower-cased,
\* ends with a rejected extension, whatever the host, the query string and
\* the fragment are.
C9_RejectsByPathOnly ==
    pc = "filter_ret" => (ret <=> PathHasRejectedExtension(arg))

(***************************************************************************)
(* C8                                                                      *)
(***************************************************************************)

\* The positions of raw whose entry is a string, non-empty once trimmed, that
\* the resource filter lets through.
KeptPositions(raw) ==
    { k \in 1..Len(raw) :
        /\ IsStr(raw[k])
        /\ Strip(raw[k].s) # << >>
        /\ ~is_bad_resource_url(Strip(raw[k].s)) }

FirstOccurrence(raw, u) ==
    CHOOSE k \in KeptPositions(raw) :
        /\ Strip(raw[k].s) = u
        /\ \A j \in KeptPositions(raw) : Strip(raw[j].s) = u => k <= j

\* C8: the list normalize_urls returns has no duplicates, holds exactly the
\* trimmed texts of the string entries that are non-empty after trimming
\* (and pass the resource filter), and holds them in the order of their
\* first occurrence in the input; non-string entries and entries empty
\* after trimming contribute nothing.
C8_NoDuplicatesFirstOccurrenceOrder ==
    pc = "normalize_ret" =>
        /\ \A a, b \in 1..Len(ret) : a # b => ret[a] # ret[b]
        /\ \A a \in 1..Len(ret) :
              /\ ret[a] # << >>
              /\ \E k \in KeptPositions(arg) : Strip(arg[k].s) = ret[a]
        /\ \A k \in KeptPositions(arg) :
              \E a \in 1..Len(ret) : ret[a] = Strip(arg[k].s)
        /\ \A a, b \in 1..Len(ret) :
              a < b => FirstOccurrence(arg, ret[a]) < FirstOccurrence(arg, ret[b])

\* A list with a non-string entry, an entry empty after trimming and an entry
\* repeated after an entry that differs from it, normalised to two URLs.
C8_Witness ==
    /\ pc = "normalize_ret"
    /\ \E k \in 1..Len(arg) : ~IsStr(arg[k])
    /\ \E k \in 1..Len(arg) : IsStr(arg[k]) /\ Strip(arg[k].s) = << >>
    /\ \E j, k \in 1..Len(arg) :
          /\ j < k
          /\ IsStr(arg[j]) /\ IsStr(arg[k])
          /\ arg[j].s # arg[k].s
          /\ Strip(arg[j].s) = Strip(arg[k].s)
          /\ Strip(arg[j].s) \in { ret[a] : a \in 1..Len(ret) }
    /\ Len(ret) >= 1

====
